---- MODULE Spec2Model ----
(***************************************************************************)
(* Merge engine of the teevee series tracker: app/services.py              *)
(* (upsert_catalog_items, upsert_episode_items, is_valid_text,             *)
(* better_text) and the bulk IMDb path of app/bulk_ingest.py               *)
(* (upsert_imdb_titles).                                                   *)
(*                                                                         *)
(* Encoding.  A Python str is a sequence of one-character strings, so that *)
(* strip(), len() and isalnum() are computed.  An optional value is a      *)
(* sequence of length at most one: None is << >>, the value v is <<v>>.    *)
(* A float rating is its value in tenths (8.2 is 82).  A store is the      *)
(* sequence of its rows in insertion order; a row's id is its index.       *)
(***************************************************************************)
EXTENDS Integers, Sequences, FiniteSets, TLC

VARIABLES
    catalog,      \* rows of catalog_titles
    episodes,     \* rows of episodes
    op,           \* the call that is running: "idle" when none is
    cid,          \* catalog_id argument of the running upsert_episode_items call
    rating_map,   \* rating_map argument of the running upsert_imdb_titles call
    created,      \* local `created` of the running call
    updated,      \* local `updated` of the running call
    consumed,     \* number of items the running call has taken from its iterable
    lastOutcome,  \* what the last loop iteration did: skipped/created/updated/unchanged
    stream,       \* history: the items the running call has consumed, with their outcomes
    prev,         \* history: the call that has just returned, with its stream and result
    todo,         \* history: what a second pass over the same stream has still to re-feed
    seen,         \* history: per media_type, the ratings of the valid-titled items processed
    engine,       \* which of the two merge engines the behaviour drives
    eval,         \* the arguments and the result of a call of a pure function
    race,         \* per overlapping merge pass: its position, its item, what it found
    refresh       \* locals of the running refresh pass: position, fetched items, sums

vars == <<catalog, episodes, op, cid, rating_map, created, updated, consumed, lastOutcome,
          stream, prev, todo, seen, engine, eval, race, refresh>>

\* The variables the merge functions themselves never read: the histories and
\* the state of their callers.  Each specification below says which it uses.
hist == <<stream, prev, todo, seen, engine, eval, race, refresh>>

\* ------------------------------------------------------------------ bounds

\* Items one call may take from its iterable.
MaxStream == 2

\* Rows a store may hold.
MaxRows == 2

\* Characters of a text value given to better_text.
MaxLen == 3

\* ------------------------------------------------------------------ values

None == << >>

Some(v) == <<v>>

\* Python truthiness of an int | None: None and 0 are falsy.
TruthyInt(o) == o # None /\ o[1] # 0

\* Python truthiness of a str | None: None and "" are falsy.
TruthyStr(o) == o # None /\ Len(o[1]) > 0

\* str.isspace() on the characters used here.
isspace(ch) == ch \in {" "}

\* str.isalnum() on the characters used here.
isalnum(ch) == ch \in {"A", "B", "C", "D", "S", "a", "b", "c", "d", "h", "o",
                       "p", "t", "w", "x", "0", "1", "2"}

RECURSIVE lstrip(_)
lstrip(s) == IF s # << >> /\ isspace(Head(s)) THEN lstrip(Tail(s)) ELSE s

RECURSIVE rstrip(_)
rstrip(s) ==
    IF s # << >> /\ isspace(s[Len(s)]) THEN rstrip(SubSeq(s, 1, Len(s) - 1)) ELSE s

\* str.strip()
strip(s) == rstrip(lstrip(s))

\* default of is_valid_text's min_length parameter
min_length == 2

is_valid_text_min_length_1(value) ==
    /\ TruthyStr(value)
    /\ LET cleaned == strip(value[1])
       IN  /\ ~(Len(cleaned) < 1)
           /\ \E i \in 1..Len(cleaned) : isalnum(cleaned[i])

is_valid_text_any_length(value) ==
    /\ TruthyStr(value)
    /\ LET cleaned == strip(value[1])
       IN  \E i \in 1..Len(cleaned) : isalnum(cleaned[i])

is_valid_text(value) ==
    /\ TruthyStr(value)
    /\ LET cleaned == strip(value[1])
       IN  /\ ~(Len(cleaned) < min_length)
           /\ \E i \in 1..Len(cleaned) : isalnum(cleaned[i])

better_text_raw_length(current, candidate) ==
    IF ~is_valid_text(candidate) THEN current
    ELSE IF ~is_valid_text(current) THEN Some(strip(candidate[1]))
    ELSE IF Len(candidate[1]) > Len(current[1])
         THEN Some(strip(candidate[1]))
         ELSE current

better_text_ties_replace(current, candidate) ==
    IF ~is_valid_text(candidate) THEN current
    ELSE IF ~is_valid_text(current) THEN Some(strip(candidate[1]))
    ELSE IF Len(strip(candidate[1])) >= Len(strip(current[1]))
         THEN Some(strip(candidate[1]))
         ELSE current

better_text(current, candidate) ==
    IF ~is_valid_text(candidate) THEN current
    ELSE IF ~is_valid_text(current) THEN Some(strip(candidate[1]))
    ELSE IF Len(strip(candidate[1])) > Len(strip(current[1]))
         THEN Some(strip(candidate[1]))
         ELSE current

\* ------------------------------------------------------ the session's view

\* What a SELECT issued through the session sees: every row, the ones added
\* earlier in the same call included (read-your-writes).
session_rows(rows) == rows

\* ------------------------------------------------------------ catalog rows

\* The SELECT of upsert_catalog_items: the ids of the rows whose title, source
\* and media_type equal the item's (the item's title as it came, not stripped).
\* .limit(1).first() takes one of them; the query has no ORDER BY.
find_catalog(rows, item) ==
    { i \in 1..Len(rows) :
        /\ rows[i].title = item.title
        /\ rows[i].source = item.source
        /\ rows[i].media_type = item.media_type }

year_fills_overwrite(existing, item) == TruthyInt(item.year)

year_fills(existing, item) == TruthyInt(item.year) /\ ~TruthyInt(existing.year)

source_url_fills(existing, item) ==
    TruthyStr(item.source_url) /\ ~TruthyStr(existing.source_url)

external_id_fills(existing, item) ==
    TruthyStr(item.external_id) /\ ~TruthyStr(existing.external_id)

description_changes(existing, item) ==
    better_text(existing.description, item.description) # existing.description

release_date_changes(existing, item) ==
    better_text(existing.release_date, item.release_date) # existing.release_date

rating_replaces_ge(existing, item) ==
    item.rating # None /\ (existing.rating = None \/ item.rating[1] >= existing.rating[1])

rating_replaces_fill(existing, item) ==
    item.rating # None /\ existing.rating = None

rating_replaces(existing, item) ==
    item.rating # None /\ (existing.rating = None \/ item.rating[1] > existing.rating[1])

\* The `if existing:` branch of upsert_catalog_items: the row after the item
\* was merged into it.
merge_catalog(existing, item) ==
    [existing EXCEPT
        !.year = IF year_fills(existing, item) THEN item.year ELSE @,
        !.source_url = IF source_url_fills(existing, item) THEN item.source_url ELSE @,
        !.external_id = IF external_id_fills(existing, item) THEN item.external_id ELSE @,
        !.description = IF description_changes(existing, item)
                        THEN better_text(existing.description, item.description) ELSE @,
        !.release_date = IF release_date_changes(existing, item)
                         THEN better_text(existing.release_date, item.release_date) ELSE @,
        !.rating = IF rating_replaces(existing, item) THEN item.rating ELSE @]

\* The `changed` flag of that branch: set by each assignment.
catalog_changed(existing, item) ==
    \/ year_fills(existing, item)
    \/ source_url_fills(existing, item)
    \/ external_id_fills(existing, item)
    \/ description_changes(existing, item)
    \/ release_date_changes(existing, item)
    \/ rating_replaces(existing, item)

\* An insert that stores the incoming description as it arrived.
new_catalog_title_verbatim(item) ==
    [title        |-> Some(strip(item.title[1])),
     media_type   |-> item.media_type,
     year         |-> item.year,
     source       |-> item.source,
     source_url   |-> item.source_url,
     external_id  |-> item.external_id,
     description  |-> item.description,
     release_date |-> IF is_valid_text(item.release_date)
                      THEN Some(strip(item.release_date[1])) ELSE None,
     rating       |-> item.rating]

\* The CatalogTitle(...) that session.add receives.
new_catalog_title(item) ==
    [title        |-> Some(strip(item.title[1])),
     media_type   |-> item.media_type,
     year         |-> item.year,
     source       |-> item.source,
     source_url   |-> item.source_url,
     external_id  |-> item.external_id,
     description  |-> IF is_valid_text(item.description)
                      THEN Some(strip(item.description[1])) ELSE None,
     release_date |-> IF is_valid_text(item.release_date)
                      THEN Some(strip(item.release_date[1])) ELSE None,
     rating       |-> item.rating]

\* ------------------------------------------------------ upsert_catalog_items

\* The call starts: created = 0, updated = 0.
begin_catalog ==
    /\ op = "idle"
    /\ op' = "catalog"
    /\ created' = 0
    /\ updated' = 0
    /\ consumed' = 0
    /\ lastOutcome' = "none"
    /\ UNCHANGED <<catalog, episodes, cid, rating_map>>

\* One iteration of `for item in items`.
catalog_item(item) ==
    /\ op = "catalog"
    /\ consumed < MaxStream
    /\ consumed' = consumed + 1
    /\ UNCHANGED <<episodes, op, cid, rating_map>>
    /\ IF ~is_valid_text(item.title)
       THEN /\ lastOutcome' = "skipped"
            /\ UNCHANGED <<catalog, created, updated>>
       ELSE LET found == find_catalog(session_rows(catalog), item)
            IN  IF found # {}
                THEN \E i \in found :
                        /\ catalog' = [catalog EXCEPT ![i] = merge_catalog(@, item)]
                        /\ updated' = IF catalog_changed(catalog[i], item)
                                      THEN updated + 1 ELSE updated
                        /\ lastOutcome' = IF catalog_changed(catalog[i], item)
                                          THEN "updated" ELSE "unchanged"
                        /\ UNCHANGED created
                ELSE /\ Len(catalog) < MaxRows
                     /\ catalog' = Append(catalog, new_catalog_title(item))
                     /\ created' = created + 1
                     /\ lastOutcome' = "created"
                     /\ UNCHANGED updated

\* The iterable is exhausted: session.commit(); return created, updated.  The
\* locals end with the call; the caller holds the returned pair.
\* session.rollback() in place of session.commit().
commit_catalog_rollback ==
    /\ op = "catalog"
    /\ op' = "idle"
    /\ catalog' = SubSeq(catalog, 1, Len(catalog) - created)
    /\ created' = 0
    /\ updated' = 0
    /\ consumed' = 0
    /\ lastOutcome' = "none"
    /\ UNCHANGED <<episodes, cid, rating_map>>

commit_catalog ==
    /\ op = "catalog"
    /\ op' = "idle"
    /\ created' = 0
    /\ updated' = 0
    /\ consumed' = 0
    /\ lastOutcome' = "none"
    /\ UNCHANGED <<catalog, episodes, cid, rating_map>>

\* ------------------------------------------------------------ episode rows

find_episode_by_title(rows, catalog_id, item) ==
    { i \in 1..Len(rows) :
        /\ rows[i].catalog_id = catalog_id
        /\ rows[i].title = item.title }

\* A lookup that falls back to the title when the numbers match no row.
find_episode_with_fallback(rows, catalog_id, item) ==
    LET numbered == { i \in 1..Len(rows) :
                        /\ rows[i].catalog_id = catalog_id
                        /\ item.season_number # None
                        /\ item.episode_number # None
                        /\ rows[i].season_number = item.season_number
                        /\ rows[i].episode_number = item.episode_number }
        titled == { i \in 1..Len(rows) :
                        /\ rows[i].catalog_id = catalog_id
                        /\ rows[i].title = item.title }
    IN  IF numbered # {} THEN numbered ELSE titled

\* The two SELECTs of upsert_episode_items: by (catalog_id, season_number,
\* episode_number) when the item carries both numbers, else by (catalog_id,
\* title), the item's title as it came.  .limit(1).first() takes one match.
find_episode(rows, catalog_id, item) ==
    IF item.season_number # None /\ item.episode_number # None
    THEN { i \in 1..Len(rows) :
             /\ rows[i].catalog_id = catalog_id
             /\ rows[i].season_number = item.season_number
             /\ rows[i].episode_number = item.episode_number }
    ELSE { i \in 1..Len(rows) :
             /\ rows[i].catalog_id = catalog_id
             /\ rows[i].title = item.title }

title_changes(existing, item) ==
    better_text(existing.title, item.title) # existing.title

air_date_changes(existing, item) ==
    better_text(existing.air_date, item.air_date) # existing.air_date

\* The `if existing:` branch of upsert_episode_items.
merge_episode(existing, item) ==
    [existing EXCEPT
        !.title = IF title_changes(existing, item)
                  THEN better_text(existing.title, item.title) ELSE @,
        !.air_date = IF air_date_changes(existing, item)
                     THEN better_text(existing.air_date, item.air_date) ELSE @,
        !.description = IF description_changes(existing, item)
                        THEN better_text(existing.description, item.description) ELSE @,
        !.source_url = IF source_url_fills(existing, item) THEN item.source_url ELSE @]

\* The `changed` flag of that branch.
episode_changed(existing, item) ==
    \/ title_changes(existing, item)
    \/ air_date_changes(existing, item)
    \/ description_changes(existing, item)
    \/ source_url_fills(existing, item)

\* The Episode(...) that session.add receives.
new_episode(catalog_id, item) ==
    [catalog_id     |-> catalog_id,
     title          |-> Some(strip(item.title[1])),
     season_number  |-> item.season_number,
     episode_number |-> item.episode_number,
     air_date       |-> IF is_valid_text(item.air_date)
                        THEN Some(strip(item.air_date[1])) ELSE None,
     description    |-> IF is_valid_text(item.description)
                        THEN Some(strip(item.description[1])) ELSE None,
     source         |-> item.source,
     source_url     |-> item.source_url]

\* ------------------------------------------------------ upsert_episode_items

\* The call starts for one catalog_id: created = 0, updated = 0.
begin_episodes(catalog_id) ==
    /\ op = "idle"
    /\ op' = "episodes"
    /\ cid' = catalog_id
    /\ created' = 0
    /\ updated' = 0
    /\ consumed' = 0
    /\ lastOutcome' = "none"
    /\ UNCHANGED <<catalog, episodes, rating_map>>

\* One iteration of `for item in items`.
episode_item(item) ==
    /\ op = "episodes"
    /\ consumed < MaxStream
    /\ consumed' = consumed + 1
    /\ UNCHANGED <<catalog, op, cid, rating_map>>
    /\ IF ~is_valid_text(item.title)
       THEN /\ lastOutcome' = "skipped"
            /\ UNCHANGED <<episodes, created, updated>>
       ELSE LET found == find_episode(session_rows(episodes), cid, item)
            IN  IF found # {}
                THEN \E i \in found :
                        /\ episodes' = [episodes EXCEPT ![i] = merge_episode(@, item)]
                        /\ updated' = IF episode_changed(episodes[i], item)
                                      THEN updated + 1 ELSE updated
                        /\ lastOutcome' = IF episode_changed(episodes[i], item)
                                          THEN "updated" ELSE "unchanged"
                        /\ UNCHANGED created
                ELSE /\ Len(episodes) < MaxRows
                     /\ episodes' = Append(episodes, new_episode(cid, item))
                     /\ created' = created + 1
                     /\ lastOutcome' = "created"
                     /\ UNCHANGED updated

\* The iterable is exhausted: session.commit(); return created, updated.
commit_episodes ==
    /\ op = "episodes"
    /\ op' = "idle"
    /\ created' = 0
    /\ updated' = 0
    /\ consumed' = 0
    /\ lastOutcome' = "none"
    /\ UNCHANGED <<catalog, episodes, cid, rating_map>>

\* -------------------------------------------------------- upsert_imdb_titles

\* Title types as the two IMDb feeds spell them: the titleType column of
\* title.basics.tsv and the "q" field of the suggestion API.
tvSeries == <<"t", "v", "S", "e", "r", "i", "e", "s">>

tvMiniSeries == <<"t", "v", "M", "i", "n", "i", "S", "e", "r", "i", "e", "s">>

tvMovie == <<"t", "v", "M", "o", "v", "i", "e">>

movie == <<"m", "o", "v", "i", "e">>

feature == <<"f", "e", "a", "t", "u", "r", "e">>

TV_series == <<"T", "V", " ", "s", "e", "r", "i", "e", "s">>

TV_movie == <<"T", "V", " ", "m", "o", "v", "i", "e">>

\* str.lower() on the characters used here.
lower_char(ch) ==
    CASE ch = "T" -> "t"
      [] ch = "V" -> "v"
      [] ch = "S" -> "s"
      [] ch = "M" -> "m"
      [] OTHER -> ch

lower(str) == [i \in 1..Len(str) |-> lower_char(str[i])]

\* Python's `sub in str`.
contains(str, sub) ==
    \E i \in 1..(Len(str) - Len(sub) + 1) : SubSeq(str, i, i + Len(sub) - 1) = sub

\* bulk_ingest.imdb_title_type_to_media
imdb_title_type_to_media(title_type) ==
    IF title_type \in {tvSeries, tvMiniSeries} THEN "series" ELSE "movie"

\* scraper.imdb_title_type_to_media, applied by fetch_imdb_suggestions to the
\* optional "q" field.
scraper_imdb_title_type_to_media(title_type) ==
    IF ~TruthyStr(title_type) THEN "movie"
    ELSE IF \/ contains(lower(title_type[1]), <<"t", "v">>)
            \/ contains(lower(title_type[1]), <<"s", "e", "r", "i", "e", "s">>)
         THEN "series"
         ELSE "movie"

\* f"https://www.imdb.com/title/{tconst}/"
imdb_url(tconst) == Some(<<"h", "t", "t", "p">> \o tconst \o <<"/">>)

\* rating_map.get(tconst): None for a tconst the ratings file does not list.
rating_get(map, tconst) == IF tconst \in DOMAIN map THEN map[tconst] ELSE None

\* The SELECT of upsert_imdb_titles: rows of source "imdb" whose external_id is
\* the record's tconst.
find_imdb_title(rows, record) ==
    { i \in 1..Len(rows) :
        /\ rows[i].external_id = record.tconst
        /\ rows[i].source = "imdb" }

start_year_fills(existing, record) ==
    TruthyInt(record.start_year) /\ ~TruthyInt(existing.year)

bulk_rating_fills(existing, rating) == rating # None /\ existing.rating = None

\* A bulk merge that also takes the record's title and media type.
merge_imdb_title_retitling(existing, record, rating) ==
    [existing EXCEPT
        !.title = record.primary_title,
        !.media_type = imdb_title_type_to_media(record.title_type),
        !.year = IF start_year_fills(existing, record) THEN record.start_year ELSE @,
        !.rating = IF bulk_rating_fills(existing, rating) THEN rating ELSE @]

\* The `if existing:` branch of upsert_imdb_titles.
merge_imdb_title(existing, record, rating) ==
    [existing EXCEPT
        !.year = IF start_year_fills(existing, record) THEN record.start_year ELSE @,
        !.rating = IF bulk_rating_fills(existing, rating) THEN rating ELSE @]

imdb_title_changed(existing, record, rating) ==
    start_year_fills(existing, record) \/ bulk_rating_fills(existing, rating)

\* The CatalogTitle(...) of upsert_imdb_titles: the title is stored as it came;
\* description and release_date are not given.
new_imdb_title(record, rating) ==
    [title        |-> record.primary_title,
     media_type   |-> imdb_title_type_to_media(record.title_type),
     year         |-> record.start_year,
     source       |-> "imdb",
     source_url   |-> imdb_url(record.tconst[1]),
     external_id  |-> record.tconst,
     description  |-> None,
     release_date |-> None,
     rating       |-> rating]

begin_imdb_titles(map) ==
    /\ op = "idle"
    /\ op' = "imdb_titles"
    /\ rating_map' = map
    /\ created' = 0
    /\ updated' = 0
    /\ consumed' = 0
    /\ lastOutcome' = "none"
    /\ UNCHANGED <<catalog, episodes, cid>>

\* One iteration of `for record in titles`.
imdb_title(record) ==
    /\ op = "imdb_titles"
    /\ consumed < MaxStream
    /\ consumed' = consumed + 1
    /\ UNCHANGED <<episodes, op, cid, rating_map>>
    /\ IF ~TruthyStr(record.tconst) \/ ~TruthyStr(record.primary_title)
       THEN /\ lastOutcome' = "skipped"
            /\ UNCHANGED <<catalog, created, updated>>
       ELSE LET found == find_imdb_title(session_rows(catalog), record)
                rating == rating_get(rating_map, record.tconst)
            IN  IF found # {}
                THEN \E i \in found :
                        /\ catalog' = [catalog EXCEPT
                                          ![i] = merge_imdb_title(@, record, rating)]
                        /\ updated' = IF imdb_title_changed(catalog[i], record, rating)
                                      THEN updated + 1 ELSE updated
                        /\ lastOutcome' = IF imdb_title_changed(catalog[i], record, rating)
                                          THEN "updated" ELSE "unchanged"
                        /\ UNCHANGED created
                ELSE /\ Len(catalog) < MaxRows
                     /\ catalog' = Append(catalog, new_imdb_title(record, rating))
                     /\ created' = created + 1
                     /\ lastOutcome' = "created"
                     /\ UNCHANGED updated

\* session.commit(); return created, updated.
commit_imdb_titles ==
    /\ op = "imdb_titles"
    /\ op' = "idle"
    /\ created' = 0
    /\ updated' = 0
    /\ consumed' = 0
    /\ lastOutcome' = "none"
    /\ UNCHANGED <<catalog, episodes, cid, rating_map>>

\* ------------------------------------------------------ upsert_imdb_episodes

\* str(n) for n >= 0, digit by digit.
Digit(d) ==
    CASE d = 0 -> "0" [] d = 1 -> "1" [] d = 2 -> "2" [] d = 3 -> "3" [] d = 4 -> "4"
      [] d = 5 -> "5" [] d = 6 -> "6" [] d = 7 -> "7" [] d = 8 -> "8" [] d = 9 -> "9"

RECURSIVE int_to_str(_)
int_to_str(n) ==
    IF n < 10 THEN <<Digit(n)>> ELSE Append(int_to_str(n \div 10), Digit(n % 10))

\* bulk_ingest.build_catalog_lookup: external_id -> id over the IMDb rows; of
\* two rows with one external_id the dict keeps the one read last.
build_catalog_lookup(rows) ==
    LET ids == { i \in 1..Len(rows) : rows[i].source = "imdb" /\ TruthyStr(rows[i].external_id) }
    IN  [e \in { rows[i].external_id : i \in ids } |->
            Some(CHOOSE i \in ids : /\ rows[i].external_id = e
                                    /\ \A j \in ids : rows[j].external_id = e => j <= i)]

\* dict.get(key): None for a key the dict does not hold.
dict_get(dict, key) == IF key \in DOMAIN dict THEN dict[key] ELSE None

\* The SELECT of upsert_imdb_episodes: the title is part of the WHERE clause.
find_imdb_episode(rows, catalog_id, episode, title_record) ==
    { i \in 1..Len(rows) :
        /\ rows[i].catalog_id = catalog_id
        /\ rows[i].season_number = episode.season_number
        /\ rows[i].episode_number = episode.episode_number
        /\ rows[i].title = title_record.title }

bulk_air_date_fills(existing, title_record) ==
    TruthyInt(title_record.start_year) /\ ~TruthyStr(existing.air_date)

\* The Episode(...) of upsert_imdb_episodes: the title is stored as it came.
new_imdb_episode(catalog_id, episode, title_record) ==
    [catalog_id     |-> catalog_id,
     title          |-> title_record.title,
     season_number  |-> episode.season_number,
     episode_number |-> episode.episode_number,
     air_date       |-> IF TruthyInt(title_record.start_year)
                        THEN Some(int_to_str(title_record.start_year[1])) ELSE None,
     description    |-> None,
     source         |-> "imdb",
     source_url     |-> imdb_url(episode.tconst[1])]

begin_imdb_episodes ==
    /\ op = "idle"
    /\ op' = "imdb_episodes"
    /\ created' = 0
    /\ updated' = 0
    /\ consumed' = 0
    /\ lastOutcome' = "none"
    /\ UNCHANGED <<catalog, episodes, cid, rating_map>>

\* One iteration of `for episode in episode_map`.
imdb_episode(catalog_lookup, episode_titles, episode) ==
    /\ op = "imdb_episodes"
    /\ consumed < MaxStream
    /\ consumed' = consumed + 1
    /\ UNCHANGED <<catalog, op, cid, rating_map>>
    /\ LET catalog_id == dict_get(catalog_lookup, episode.parent_tconst)
           title_record == dict_get(episode_titles, episode.tconst)
       IN  IF \/ ~TruthyStr(episode.tconst)
              \/ ~TruthyStr(episode.parent_tconst)
              \/ ~TruthyInt(catalog_id)
              \/ title_record = None
           THEN /\ lastOutcome' = "skipped"
                /\ UNCHANGED <<episodes, created, updated>>
           ELSE LET found == find_imdb_episode(session_rows(episodes), catalog_id[1],
                                               episode, title_record[1])
                IN  IF found # {}
                    THEN \E i \in found :
                            /\ episodes' =
                                  [episodes EXCEPT ![i].air_date =
                                      IF bulk_air_date_fills(episodes[i], title_record[1])
                                      THEN Some(int_to_str(title_record[1].start_year[1])) ELSE @]
                            /\ updated' = IF bulk_air_date_fills(episodes[i], title_record[1])
                                          THEN updated + 1 ELSE updated
                            /\ lastOutcome' = IF bulk_air_date_fills(episodes[i], title_record[1])
                                              THEN "updated" ELSE "unchanged"
                            /\ UNCHANGED created
                    ELSE /\ Len(episodes) < MaxRows
                         /\ episodes' = Append(episodes,
                                               new_imdb_episode(catalog_id[1], episode, title_record[1]))
                         /\ created' = created + 1
                         /\ lastOutcome' = "created"
                         /\ UNCHANGED updated

\* session.commit(); return created, updated.
commit_imdb_episodes ==
    /\ op = "imdb_episodes"
    /\ op' = "idle"
    /\ created' = 0
    /\ updated' = 0
    /\ consumed' = 0
    /\ lastOutcome' = "none"
    /\ UNCHANGED <<catalog, episodes, cid, rating_map>>

\* ------------------------------------------------------------------ items

T_AB == <<"A", "B">>
T_sAB == <<" ", "A", "B">>
T_dash == <<"-", "-">>
T_A == <<"A">>
T_ABCD == <<"A", "B", "C", "D">>
T_ab == <<"a", "b">>
T_abcd == <<"a", "b", "c", "d">>
T_date == <<"2", "0">>
T_url == <<"h", "t", "t", "p", "x">>
T_tt1 == <<"t", "t", "1">>
T_tt2 == <<"t", "t", "2">>
T_empty == << >>
T_ShowA == <<"S", "h", "o", "w", " ", "A">>
T_sShowA == <<" ", "S", "h", "o", "w", " ", "A">>
T_ShowAs == <<"S", "h", "o", "w", " ", "A", " ">>

CatalogItem(t, m, y, s, u, e, d, r, g) ==
    [title |-> t, media_type |-> m, year |-> y, source |-> s, source_url |-> u,
     external_id |-> e, description |-> d, release_date |-> r, rating |-> g]

\* The items of Spec: one key (title "AB", series, wikipedia).  TitleItems vary
\* the title over valid, one character, no alphanumeric, empty and None;
\* FillItems vary the fill-only fields, 0 and "" included; QualityItems vary the
\* fields merged by quality, an invalid description included.
MediaTypes == {"movie", "series"}

TitleItems ==
    { CatalogItem(t, m, None, "wikipedia", None, None, None, None, None) :
        t \in {Some(T_AB), Some(T_A), Some(T_dash), Some(T_empty), None},
        m \in MediaTypes }

FillItems ==
    { CatalogItem(Some(T_AB), "series", y, "wikipedia", u, e, None, None, None) :
        y \in {None, Some(0), Some(1999), Some(2001)},
        u \in {None, Some(T_empty), Some(T_url)},
        e \in {None, Some(T_tt1)} }

QualityItems ==
    { CatalogItem(Some(T_AB), "series", None, "wikipedia", None, None, d, r, g) :
        d \in {None, Some(T_dash), Some(T_ab), Some(T_sAB), Some(T_abcd)},
        r \in {None, Some(T_date)},
        g \in {None, Some(70), Some(82)} }

FieldItems == TitleItems \cup FillItems \cup QualityItems

EpisodeItem(t, s, e, a, d, src, u) ==
    [title |-> t, season_number |-> s, episode_number |-> e, air_date |-> a,
     description |-> d, source |-> src, source_url |-> u]

\* Items of season 1, episode 1 of one series, as fetch_imdb_episodes builds them.
FieldEpisodeItems ==
    { EpisodeItem(t, Some(1), Some(1), a, d, "imdb", u) :
        t \in {Some(T_AB), Some(T_ab), Some(T_ABCD), Some(T_dash), None},
        a \in {None, Some(T_date)},
        d \in {None, Some(T_ab)},
        u \in {None, Some(T_empty), Some(T_url)} }
    \cup {EpisodeItem(Some(T_AB), Some(1), Some(2), None, None, "imdb", None)}

\* ------------------------------------------------------------ specification

\* The tconsts of the ratings file, and a rating_map that rates none of them.
Tconsts == {Some(T_tt1), Some(T_tt2)}

NoRatings == [t \in Tconsts |-> None]

NoCall == [op |-> "none", cid |-> 0, items |-> << >>, created |-> 0, updated |-> 0]

\* No pure call, no overlapping pass, no refresh pass.
NoEval == [fn |-> "none"]

NoRace == << >>

NoRefresh == [pc |-> "none"]

\* Empty tables, no call running, nothing recorded.
InitCore ==
    /\ catalog = << >>
    /\ episodes = << >>
    /\ op = "idle"
    /\ cid = 0
    /\ rating_map = NoRatings
    /\ created = 0
    /\ updated = 0
    /\ consumed = 0
    /\ lastOutcome = "none"
    /\ stream = << >>
    /\ prev = NoCall
    /\ todo = << >>
    /\ seen = [m \in MediaTypes |-> {}]

InitStores ==
    /\ InitCore
    /\ eval = NoEval
    /\ race = NoRace
    /\ refresh = NoRefresh

\* ---------------------------------------------------------------------------
\* Spec: the live path, every field rule.  upsert_catalog_items reads and writes
\* catalog_titles only and upsert_episode_items episodes only, so a behaviour
\* drives one of the two engines, chosen at the start; a behaviour that
\* interleaves calls of both is a pair of such behaviours.
\* ---------------------------------------------------------------------------

Init == InitStores /\ engine \in {"catalog", "episodes"}

BeginCatalog == engine = "catalog" /\ begin_catalog /\ UNCHANGED hist

CatalogItemStep == \E item \in FieldItems : catalog_item(item) /\ UNCHANGED hist

CommitCatalog == commit_catalog /\ UNCHANGED hist

BeginEpisodes == engine = "episodes" /\ begin_episodes(1) /\ UNCHANGED hist

EpisodeItemStep == \E item \in FieldEpisodeItems : episode_item(item) /\ UNCHANGED hist

CommitEpisodes == commit_episodes /\ UNCHANGED hist

Next ==
    \/ BeginCatalog
    \/ CatalogItemStep
    \/ CommitCatalog
    \/ BeginEpisodes
    \/ EpisodeItemStep
    \/ CommitEpisodes

Spec == Init /\ [][Next]_vars

\* ---------------------------------------------------------------------------
\* C3.  An item whose title is absent, empty, shorter than 2 characters after
\* trimming or without an alphanumeric character is skipped by both engines: no
\* row is inserted, no field of a row changes, neither tally is incremented.
\* ---------------------------------------------------------------------------

\* The validity predicate as the claim words it.
TitleFails(t) ==
    \/ t = None
    \/ t[1] = << >>
    \/ Len(strip(t[1])) < 2
    \/ \A i \in 1..Len(t[1]) : ~isalnum(t[1][i])

InvalidTitleIsSkipped ==
    [][ /\ \A item \in FieldItems :
              TitleFails(item.title) /\ catalog_item(item)
                  => UNCHANGED <<catalog, episodes, created, updated>>
        /\ \A item \in FieldEpisodeItems :
              TitleFails(item.title) /\ episode_item(item)
                  => UNCHANGED <<catalog, episodes, created, updated>>
      ]_vars

\* An episode call that created a row and then skipped an item.
SkippedAfterCreate ==
    /\ op = "episodes"
    /\ lastOutcome = "skipped"
    /\ consumed = 2
    /\ created = 1
    /\ Len(episodes) = 1

\* ---------------------------------------------------------------------------
\* C8.  An item that matches a row adds exactly 1 to updated when a stored field
\* of the row changed and 0 when none did, in both engines.
\* ---------------------------------------------------------------------------

UpdatedOncePerChangedItem ==
    [][ /\ (op = "catalog" /\ consumed' = consumed + 1 /\ Len(catalog') = Len(catalog))
              => updated' = updated + (IF catalog' # catalog THEN 1 ELSE 0)
        /\ (op = "episodes" /\ consumed' = consumed + 1 /\ Len(episodes') = Len(episodes))
              => updated' = updated + (IF episodes' # episodes THEN 1 ELSE 0)
      ]_vars

\* One item has filled several fields of the row and counted once.
SeveralFieldsOneUpdate ==
    /\ op = "catalog"
    /\ consumed = 2
    /\ created = 1
    /\ updated = 1
    /\ catalog[1].description # None
    /\ catalog[1].release_date # None
    /\ catalog[1].rating # None

\* ---------------------------------------------------------------------------
\* C9.  Fill-only fields.  As claimed: once year, source_url or external_id of a
\* catalog row (or source_url of an episode row) holds a value, no item changes
\* it.
\* ---------------------------------------------------------------------------

FillOnlyNeverOverwritesAValue ==
    [][ /\ \A i \in 1..Len(catalog) :
              /\ catalog[i].year # None => catalog'[i].year = catalog[i].year
              /\ catalog[i].source_url # None
                    => catalog'[i].source_url = catalog[i].source_url
              /\ catalog[i].external_id # None
                    => catalog'[i].external_id = catalog[i].external_id
        /\ \A i \in 1..Len(episodes) :
              episodes[i].source_url # None
                    => episodes'[i].source_url = episodes[i].source_url
      ]_vars

\* C9 as amended: a fill-only field that holds a value other than 0 and "" is
\* never changed; a field that is None, 0 or "" is the only kind an incoming
\* value is stored into.
FillOnlyNeverOverwritesATruthyValue ==
    [][ /\ \A i \in 1..Len(catalog) :
              /\ TruthyInt(catalog[i].year) => catalog'[i].year = catalog[i].year
              /\ TruthyStr(catalog[i].source_url)
                    => catalog'[i].source_url = catalog[i].source_url
              /\ TruthyStr(catalog[i].external_id)
                    => catalog'[i].external_id = catalog[i].external_id
        /\ \A i \in 1..Len(episodes) :
              TruthyStr(episodes[i].source_url)
                    => episodes'[i].source_url = episodes[i].source_url
      ]_vars

\* A row whose year is 2001 has been matched by an item that changed nothing.
PopulatedYearKept ==
    /\ op = "catalog"
    /\ lastOutcome = "unchanged"
    /\ consumed = 2
    /\ created = 1
    /\ catalog[1].year = Some(2001)

\* ---------------------------------------------------------------------------
\* SpecRating: upsert_catalog_items over two keys (the two media types of one
\* title) with ratings 6.0, 7.0, 8.2 and None; `seen` records, per key, the
\* ratings of the valid-titled items processed.
\* ---------------------------------------------------------------------------

RatedItems ==
    { CatalogItem(t, m, None, "wikipedia", None, None, None, None, g) :
        t \in {Some(T_AB), Some(T_dash)},
        m \in MediaTypes,
        g \in {None, Some(60), Some(70), Some(82)} }

\* The ratings an item adds to what its key has seen.
rating_of(item) == IF item.rating = None THEN {} ELSE {item.rating[1]}

InitRating == InitStores /\ engine = "catalog"

RatedBegin == begin_catalog /\ UNCHANGED hist

RatedItemStep ==
    \E item \in RatedItems :
        /\ catalog_item(item)
        /\ seen' = IF is_valid_text(item.title)
                   THEN [seen EXCEPT ![item.media_type] = @ \cup rating_of(item)]
                   ELSE seen
        /\ UNCHANGED <<stream, prev, todo, engine, eval, race, refresh>>

RatedCommit == commit_catalog /\ UNCHANGED hist

NextRating == RatedBegin \/ RatedItemStep \/ RatedCommit

SpecRating == InitRating /\ [][NextRating]_vars

\* ---------------------------------------------------------------------------
\* C10.  On a matched row the stored rating becomes the incoming one when the
\* stored one is absent or the incoming one is strictly greater, and is otherwise
\* unchanged; so the stored rating of a key is the maximum of the ratings seen
\* for it.
\* ---------------------------------------------------------------------------

MaxOf(S) == CHOOSE x \in S : \A y \in S : y <= x

\* The rule as the claim words it.
ClaimedRating(stored, incoming) ==
    IF incoming # None /\ (stored = None \/ incoming[1] > stored[1])
    THEN incoming ELSE stored

RatingIsTheHighestSeen ==
    /\ [](\A i \in 1..Len(catalog) :
            catalog[i].rating = IF seen[catalog[i].media_type] = {} THEN None
                                ELSE Some(MaxOf(seen[catalog[i].media_type])))
    /\ [][\A item \in RatedItems :
            (catalog_item(item) /\ Len(catalog') = Len(catalog) /\ ~TitleFails(item.title))
                => \E i \in find_catalog(catalog, item) :
                      catalog'[i].rating = ClaimedRating(catalog[i].rating, item.rating)
         ]_vars

\* A key whose row holds 8.2 after 7.0 and 6.0 were seen for it too.
HigherRatingWon ==
    /\ Len(catalog) >= 1
    /\ catalog[1].rating = Some(82)
    /\ seen[catalog[1].media_type] = {60, 70, 82}
    /\ lastOutcome = "unchanged"

\* ---------------------------------------------------------------------------
\* SpecStream: upsert_catalog_items on item streams whose titles may carry
\* leading or trailing whitespace, each call recorded (`stream`: the items
\* consumed, each with its outcome) and, once it has returned, either forgotten
\* or followed at once by a second pass over the same stream (`todo`).
\* ---------------------------------------------------------------------------

ShowA_2020 ==
    CatalogItem(Some(T_ShowA), "series", Some(2020), "wikipedia", None, None, None, None, None)

ShowA_url ==
    CatalogItem(Some(T_ShowA), "series", None, "wikipedia", Some(T_url), None, None, None, None)

StreamItems ==
    { CatalogItem(t, m, None, "wikipedia", None, None, None, None, None) :
        t \in {Some(T_ShowA), Some(T_sShowA), Some(T_ShowAs), Some(T_dash)},
        m \in MediaTypes }
    \cup {ShowA_2020, ShowA_url}

Returned(kind) ==
    [op |-> kind, cid |-> cid, items |-> stream, created |-> created, updated |-> updated]

InitStream == InitStores /\ engine = "catalog"

FirstPassBegin ==
    /\ begin_catalog
    /\ stream' = << >>
    /\ prev' = NoCall
    /\ todo' = << >>
    /\ UNCHANGED <<seen, engine, eval, race, refresh>>

FirstPassItem ==
    \E item \in StreamItems :
        /\ prev.op = "none"
        /\ catalog_item(item)
        /\ stream' = Append(stream, [item |-> item, outcome |-> lastOutcome'])
        /\ UNCHANGED <<prev, todo, seen, engine, eval, race, refresh>>

FirstPassReturn ==
    /\ prev.op = "none"
    /\ commit_catalog
    /\ prev' = Returned("catalog")
    /\ stream' = << >>
    /\ UNCHANGED <<todo, seen, engine, eval, race, refresh>>

\* The same stream is merged again, right after the first pass returned.
SecondPassBegin ==
    /\ prev.op = "catalog"
    /\ begin_catalog
    /\ todo' = [i \in 1..Len(prev.items) |-> prev.items[i].item]
    /\ stream' = << >>
    /\ UNCHANGED <<prev, seen, engine, eval, race, refresh>>

SecondPassItem ==
    /\ prev.op = "catalog"
    /\ todo # << >>
    /\ catalog_item(Head(todo))
    /\ todo' = Tail(todo)
    /\ stream' = Append(stream, [item |-> Head(todo), outcome |-> lastOutcome'])
    /\ UNCHANGED <<prev, seen, engine, eval, race, refresh>>

SecondPassReturn ==
    /\ prev.op = "catalog"
    /\ todo = << >>
    /\ commit_catalog
    /\ prev' = Returned("second")
    /\ stream' = << >>
    /\ UNCHANGED <<todo, seen, engine, eval, race, refresh>>

NextStream ==
    \/ FirstPassBegin
    \/ FirstPassItem
    \/ FirstPassReturn
    \/ SecondPassBegin
    \/ SecondPassItem
    \/ SecondPassReturn

SpecStream == InitStream /\ [][NextStream]_vars

\* ---------------------------------------------------------------------------
\* C1.  After any sequence of upsert_catalog_items calls on an initially empty
\* store the store never holds two rows with the same (title, source,
\* media_type).
\* ---------------------------------------------------------------------------

OneRowPerTitleKey ==
    \A i, j \in 1..Len(catalog) :
        i < j => ~ /\ catalog[i].title = catalog[j].title
                   /\ catalog[i].source = catalog[j].source
                   /\ catalog[i].media_type = catalog[j].media_type

\* ---------------------------------------------------------------------------
\* C2.  When the same stream is merged twice in succession, the second pass
\* returns created_count = 0.
\* ---------------------------------------------------------------------------

SecondPassCreatesNothing == prev.op = "second" => prev.created = 0

\* ---------------------------------------------------------------------------
\* C4.  Within one call, when the stream yields two items with the same (title,
\* source, media_type) and the first of them is inserted (no such row existed),
\* the second is merged into a row (an update or a no-op), never inserted.
\* ---------------------------------------------------------------------------

SameKey(a, b) ==
    a.title = b.title /\ a.source = b.source /\ a.media_type = b.media_type

SecondOccurrenceMerges ==
    \A i, j \in 1..Len(stream) :
        (i < j /\ SameKey(stream[i].item, stream[j].item) /\ stream[i].outcome = "created")
            => stream[j].outcome \in {"updated", "unchanged"}

\* The example of C4, which the code does satisfy: the stream [year 2020 and no
\* source_url, then no year and a source_url], whose first item was inserted,
\* leaves one row of that key, with year 2020 and the source_url, and the
\* tallies 1 and 1.
ShowAExample ==
    (/\ Len(stream) = 2
     /\ stream[1] = [item |-> ShowA_2020, outcome |-> "created"]
     /\ stream[2].item = ShowA_url)
        => /\ stream[2].outcome = "updated"
           /\ created = 1
           /\ updated = 1
           /\ \E i \in 1..Len(catalog) :
                 /\ find_catalog(catalog, ShowA_2020) = {i}
                 /\ catalog[i].year = Some(2020)
                 /\ catalog[i].source_url = Some(T_url)

\* ---------------------------------------------------------------------------
\* SpecEpisodes: upsert_episode_items for two series, on items that carry both
\* numbers, one number or none, with titles that may carry leading whitespace.
\* `stream` holds the item merged last (with its catalog_id and outcome), kept
\* across calls.
\* ---------------------------------------------------------------------------

CatalogIds == {1, 2}

KeyEpisodeItems ==
    { EpisodeItem(t, n[1], n[2], None, None, "imdb", None) :
        t \in {Some(T_AB), Some(T_sAB), Some(T_ABCD), Some(T_dash)},
        n \in {<<None, None>>, <<Some(1), Some(1)>>, <<Some(1), None>>} }

InitEpisodes == InitStores /\ engine = "episodes"

EpisodesBegin == \E c \in CatalogIds : begin_episodes(c) /\ UNCHANGED hist

EpisodesItem ==
    \E item \in KeyEpisodeItems :
        /\ episode_item(item)
        /\ stream' = <<[item |-> item, cid |-> cid, outcome |-> lastOutcome']>>
        /\ UNCHANGED <<prev, todo, seen, engine, eval, race, refresh>>

EpisodesCommit == commit_episodes /\ UNCHANGED hist

NextEpisodes == EpisodesBegin \/ EpisodesItem \/ EpisodesCommit

SpecEpisodes == InitEpisodes /\ [][NextEpisodes]_vars

\* ---------------------------------------------------------------------------
\* C5.  After any sequence of upsert_episode_items calls the store never holds
\* two rows with the same (catalog_id, season_number, episode_number) in which
\* both numbers are present.
\* ---------------------------------------------------------------------------

OneRowPerEpisodeNumber ==
    \A i, j \in 1..Len(episodes) :
        i < j => ~ /\ episodes[i].catalog_id = episodes[j].catalog_id
                   /\ episodes[i].season_number # None
                   /\ episodes[i].episode_number # None
                   /\ episodes[i].season_number = episodes[j].season_number
                   /\ episodes[i].episode_number = episodes[j].episode_number

\* Season 1, episode 1 came twice in one call under different titles and is one
\* row, which took the longer title.
RenumberedTitleMerged ==
    /\ op = "episodes"
    /\ consumed = 2
    /\ created = 1
    /\ updated = 1
    /\ Len(episodes) = 1
    /\ episodes[1].season_number = Some(1)
    /\ episodes[1].episode_number = Some(1)
    /\ episodes[1].title = Some(T_ABCD)

\* ---------------------------------------------------------------------------
\* C6.  Of two items without numbers and with the same title, merged one after
\* the other for the same catalog_id (in one stream or in two successive calls),
\* the second never causes an insert.
\* ---------------------------------------------------------------------------

Unnumbered(item) == item.season_number = None /\ item.episode_number = None

SameTitleUnnumberedMergesOnce ==
    [][\A item \in KeyEpisodeItems :
          ( /\ stream # << >>
            /\ stream[1].cid = cid
            /\ Unnumbered(stream[1].item)
            /\ Unnumbered(item)
            /\ stream[1].item.title = item.title
            /\ episode_item(item) )
              => Len(episodes') = Len(episodes)
      ]_vars

\* ---------------------------------------------------------------------------
\* SpecImdb: IMDb ingestion by both paths: live upsert_catalog_items calls on
\* items as fetch_imdb_suggestions builds them (source "imdb", external_id the
\* title id) and bulk upsert_imdb_titles calls on title.basics records.
\* ---------------------------------------------------------------------------

\* The CatalogItem fetch_imdb_suggestions builds from one suggestion result.
imdb_suggestion_item(l, q, title_id, rating) ==
    CatalogItem(l, scraper_imdb_title_type_to_media(q), None, "imdb",
                imdb_url(title_id[1]), title_id, None, None, rating)

ImdbItems ==
    { imdb_suggestion_item(l, q, e, g) :
        l \in {Some(T_AB), Some(T_ABCD)},
        q \in {None, Some(feature), Some(TV_series), Some(TV_movie)},
        e \in Tconsts,
        g \in {None, Some(82)} }

TitleRecord(tc, tt, pt, sy) ==
    [tconst |-> tc, title_type |-> tt, primary_title |-> pt, start_year |-> sy]

TitleRecords ==
    { TitleRecord(tc, tt, pt, sy) :
        tc \in Tconsts \cup {Some(T_empty)},
        tt \in {movie, tvSeries, tvMiniSeries, tvMovie},
        pt \in {Some(T_AB), Some(T_empty)},
        sy \in {None, Some(2001)} }

RatingMaps == [Tconsts -> {None, Some(90)}]

InitImdb == InitStores /\ engine = "catalog"

LiveBegin == begin_catalog /\ UNCHANGED hist

LiveItem == \E item \in ImdbItems : catalog_item(item) /\ UNCHANGED hist

LiveCommit == commit_catalog /\ UNCHANGED hist

BulkBegin == \E map \in RatingMaps : begin_imdb_titles(map) /\ UNCHANGED hist

BulkRecord == \E record \in TitleRecords : imdb_title(record) /\ UNCHANGED hist

BulkCommit == commit_imdb_titles /\ UNCHANGED hist

NextImdb == LiveBegin \/ LiveItem \/ LiveCommit \/ BulkBegin \/ BulkRecord \/ BulkCommit

SpecImdb == InitImdb /\ [][NextImdb]_vars

\* ---------------------------------------------------------------------------
\* C7.  Over any sequence of live and bulk IMDb ingestion calls the store holds
\* at most one row per (external_id, source = "imdb").
\* ---------------------------------------------------------------------------

OneRowPerImdbId ==
    \A i, j \in 1..Len(catalog) :
        i < j => ~ /\ catalog[i].source = "imdb"
                   /\ catalog[j].source = "imdb"
                   /\ catalog[i].external_id # None
                   /\ catalog[i].external_id = catalog[j].external_id

\* ---------------------------------------------------------------------------
\* SpecText: better_text as a function.  The initial state draws current and
\* candidate from every optional string of at most MaxLen characters over a
\* space, an alphanumeric and a punctuation character; the one action calls it.
\* ---------------------------------------------------------------------------

TextChars == {" ", "x", "-"}

Texts ==
    {None} \cup { Some(str) : str \in UNION { [1..n -> TextChars] : n \in 0..MaxLen } }

InitText ==
    /\ InitCore
    /\ engine = "catalog"
    /\ race = NoRace
    /\ refresh = NoRefresh
    /\ eval \in { [fn |-> "better_text", current |-> c, candidate |-> d,
                   done |-> FALSE, result |-> None] : c \in Texts, d \in Texts }

CallBetterText ==
    /\ eval.fn = "better_text"
    /\ ~eval.done
    /\ eval' = [eval EXCEPT !.done = TRUE,
                            !.result = better_text(eval.current, eval.candidate)]
    /\ UNCHANGED <<catalog, episodes, op, cid, rating_map, created, updated, consumed,
                   lastOutcome, stream, prev, todo, seen, engine, race, refresh>>

NextText == CallBetterText

SpecText == InitText /\ [][NextText]_vars

Called == eval.fn = "better_text" /\ eval.done

\* The validity predicate in the specification's words: non-empty after
\* trimming, at least two characters, at least one alphanumeric character.
ValidText(v) ==
    /\ v # None
    /\ strip(v[1]) # << >>
    /\ Len(strip(v[1])) >= 2
    /\ \E i \in 1..Len(strip(v[1])) : isalnum(strip(v[1])[i])

Trimmed(v) == Some(strip(v[1]))

ReferenceBetter(current, candidate) ==
    IF ~ValidText(candidate) THEN current
    ELSE IF current = None \/ ~ValidText(current) THEN Trimmed(candidate)
    ELSE IF Len(strip(candidate[1])) > Len(strip(current[1])) THEN Trimmed(candidate)
    ELSE current

\* ---------------------------------------------------------------------------
\* C11.  better_text(current, candidate) is the reference rule on every input:
\* an invalid candidate gives current; otherwise an invalid or absent current
\* gives the trimmed candidate; otherwise the trimmed candidate wins only when
\* strictly longer (trimmed) than current, and a tie keeps current.
\* ---------------------------------------------------------------------------

BetterTextIsTheReferenceRule ==
    Called => eval.result = ReferenceBetter(eval.current, eval.candidate)

TieKeptCurrent ==
    /\ Called
    /\ ValidText(eval.current)
    /\ ValidText(eval.candidate)
    /\ Len(strip(eval.candidate[1])) = Len(strip(eval.current[1]))
    /\ strip(eval.candidate[1]) # strip(eval.current[1])
    /\ eval.result = eval.current

\* ---------------------------------------------------------------------------
\* C12.  As stated: better(None, "x") is "x".  The code gives None: a candidate
\* of one character fails is_valid_text, so the absent current is returned; the
\* shortest candidate that replaces an absent current has two characters.
\* ---------------------------------------------------------------------------

T_x == <<"x">>

T_xx == <<"x", "x">>

OneCharCandidateWins ==
    (Called /\ eval.current = None /\ eval.candidate = Some(T_x))
        => eval.result = Some(T_x)

OneCharCandidateIsRejected ==
    /\ (Called /\ eval.current = None /\ eval.candidate = Some(T_x))
          => eval.result = None
    /\ (Called /\ eval.current = None /\ eval.candidate = Some(T_xx))
          => eval.result = Some(T_xx)

AbsentCurrentOneCharCandidate ==
    /\ Called
    /\ eval.current = None
    /\ eval.candidate = Some(T_x)
    /\ eval.result = None

\* ---------------------------------------------------------------------------
\* C13.  Never decrease information: in every step of either merge function and
\* for every row, a text field that holds a valid value stays valid, its trimmed
\* length does not decrease and it changes only to a strictly longer value; a
\* stored rating does not disappear or decrease.
\* ---------------------------------------------------------------------------

TextKept(old, new) ==
    ValidText(old) =>
        /\ ValidText(new)
        /\ Len(strip(new[1])) >= Len(strip(old[1]))
        /\ (new # old => Len(strip(new[1])) > Len(strip(old[1])))

RatingKept(old, new) == old # None => (new # None /\ new[1] >= old[1])

NeverDecreaseInformation ==
    [][/\ \A i \in 1..Len(catalog) :
             /\ i <= Len(catalog')
             /\ TextKept(catalog[i].description, catalog'[i].description)
             /\ TextKept(catalog[i].release_date, catalog'[i].release_date)
             /\ RatingKept(catalog[i].rating, catalog'[i].rating)
       /\ \A i \in 1..Len(episodes) :
             /\ i <= Len(episodes')
             /\ TextKept(episodes[i].title, episodes'[i].title)
             /\ TextKept(episodes[i].air_date, episodes'[i].air_date)
             /\ TextKept(episodes[i].description, episodes'[i].description)]_vars

PopulatedRowLeftAlone ==
    /\ op = "catalog"
    /\ lastOutcome = "unchanged"
    /\ consumed = 2
    /\ created = 1
    /\ updated = 0
    /\ catalog[1].description = Some(T_ab)
    /\ catalog[1].release_date = Some(T_date)
    /\ catalog[1].rating = Some(82)

\* ---------------------------------------------------------------------------
\* C14.  The merge functions never delete and their tallies match their
\* inserts: no step removes a row; while a call runs, every step adds to
\* `created` exactly the number of rows it adds; `created` is 0 when the call
\* starts and no row is added or removed when it starts or returns.
\* ---------------------------------------------------------------------------

Rows == Len(catalog) + Len(episodes)

TalliesMatchInserts ==
    [][/\ Len(catalog') >= Len(catalog)
       /\ Len(episodes') >= Len(episodes)
       /\ (op' = op /\ op # "idle") => (Rows' - Rows = created' - created)
       /\ (op' # op) => (Rows' = Rows /\ (op = "idle" => created' = 0))]_vars

RowAddedNextToAnOlderOne ==
    /\ op = "catalog"
    /\ consumed = 1
    /\ created = 1
    /\ lastOutcome = "created"
    /\ Len(catalog) = 2

\* ---------------------------------------------------------------------------
\* SpecRace: two merge passes over one store at the same time, the scheduler's
\* thread (run_scheduled_refresh) and a request thread (POST
\* /api/catalog/refresh), each with a session of its own and one item to merge.
\* One loop iteration of upsert_catalog_items is three steps here: the SELECT,
\* the branch on `existing` (whose write stays in the session), the commit.
\* ---------------------------------------------------------------------------

Passes == {"scheduled", "manual"}

RaceItems ==
    { CatalogItem(Some(T_AB), m, y, "wikipedia", None, None, d, None, None) :
        m \in MediaTypes,
        y \in {None, Some(2001)},
        d \in {None, Some(T_ab)} }

IdlePass == [pc |-> "idle"]

\* INSERT INTO catalog_titles: the table declares no unique constraint over
\* (title, source, media_type), so every insert succeeds.
insert_row_unique(rows, row) ==
    IF \E i \in 1..Len(rows) :
          /\ rows[i].title = row.title
          /\ rows[i].source = row.source
          /\ rows[i].media_type = row.media_type
    THEN rows
    ELSE Append(rows, row)

insert_row(rows, row) == Append(rows, row)

InitRace ==
    /\ InitCore
    /\ engine = "catalog"
    /\ eval = NoEval
    /\ refresh = NoRefresh
    /\ race = [p \in Passes |-> IdlePass]

RaceUnchanged ==
    UNCHANGED <<episodes, op, cid, rating_map, created, updated, consumed, lastOutcome,
                stream, prev, todo, seen, engine, eval, refresh>>

\* The pass starts: its iterable will yield `item`.
RaceBegin(p) ==
    \E item \in RaceItems :
        /\ race[p].pc = "idle"
        /\ race' = [race EXCEPT ![p] = [pc |-> "select", item |-> item]]
        /\ UNCHANGED catalog
        /\ RaceUnchanged

\* services.py:37-49, against the rows committed so far; the session keeps the
\* rows as it loaded them.
RaceSelect(p) ==
    /\ race[p].pc = "select"
    /\ race' = [race EXCEPT ![p] =
                   [pc |-> "branch", item |-> race[p].item,
                    found |-> find_catalog(catalog, race[p].item),
                    loaded |-> catalog]]
    /\ UNCHANGED catalog
    /\ RaceUnchanged

\* services.py:50-88: the merge of the row found, or session.add of a new one.
RaceBranch(p) ==
    /\ race[p].pc = "branch"
    /\ \/ /\ race[p].found = {}
          /\ race' = [race EXCEPT ![p] =
                         [pc |-> "commit", item |-> race[p].item, found |-> {},
                          pending |-> <<new_catalog_title(race[p].item)>>,
                          row |-> 0, existing |-> << >>, merged |-> << >>]]
       \/ \E i \in race[p].found :
             race' = [race EXCEPT ![p] =
                         [pc |-> "commit", item |-> race[p].item, found |-> race[p].found,
                          pending |-> << >>,
                          row |-> i, existing |-> <<race[p].loaded[i]>>,
                          merged |-> <<merge_catalog(race[p].loaded[i], race[p].item)>>]]
    /\ UNCHANGED catalog
    /\ RaceUnchanged

\* The UPDATE the flush issues: only the columns the session changed.
update_row(stored, existing, merged) ==
    [f \in DOMAIN stored |-> IF merged[f] # existing[f] THEN merged[f] ELSE stored[f]]

\* services.py:89: the flush and the commit of what the session holds.
RaceCommit(p) ==
    /\ race[p].pc = "commit"
    /\ catalog' =
          IF race[p].pending # << >>
          THEN insert_row(catalog, race[p].pending[1])
          ELSE [catalog EXCEPT ![race[p].row] =
                   update_row(@, race[p].existing[1], race[p].merged[1])]
    /\ race' = [race EXCEPT ![p] = [pc |-> "done", item |-> race[p].item,
                                    found |-> race[p].found]]
    /\ RaceUnchanged

NextRace ==
    \E p \in Passes :
        \/ RaceBegin(p)
        \/ RaceSelect(p)
        \/ RaceBranch(p)
        \/ RaceCommit(p)

SpecRace == InitRace /\ [][NextRace]_vars

\* ---------------------------------------------------------------------------
\* C15.  When the two passes overlap so that both did the lookup for one key
\* before either committed its insert, the store ends with two rows of that
\* key: whenever both passes are done and both found no row, the table holds
\* one row per pass, and they share the key when the items do.
\* ---------------------------------------------------------------------------

BothDone == \A p \in Passes : race[p].pc = "done"

BothFoundNothing == \A p \in Passes : race[p].found = {}

CheckThenInsertRaces ==
    (BothDone /\ BothFoundNothing)
        => /\ Len(catalog) = 2
           /\ SameKey(race["scheduled"].item, race["manual"].item)
                 => /\ catalog[1].title = catalog[2].title
                    /\ catalog[1].source = catalog[2].source
                    /\ catalog[1].media_type = catalog[2].media_type

TwoRowsOfOneKey ==
    /\ BothDone
    /\ BothFoundNothing
    /\ SameKey(race["scheduled"].item, race["manual"].item)
    /\ Len(catalog) = 2
    /\ catalog[1].title = catalog[2].title
    /\ catalog[1].source = catalog[2].source
    /\ catalog[1].media_type = catalog[2].media_type

\* ---------------------------------------------------------------------------
\* The source adapters, as functions of what the upstream answered.  A response
\* is the outcome of requests.get and raise_for_status (`status`), whether its
\* body parses as the format the adapter expects (`parses`), and the items the
\* adapter builds from a body that does (`items`).
\* ---------------------------------------------------------------------------

Response(status, parses, items) == [status |-> status, parses |-> parses, items |-> items]

Fetched(items) == [raised |-> FALSE, items |-> items]

\* An exception leaves the adapter.
Raised == [raised |-> TRUE, items |-> << >>]

\* scraper.fetch_imdb_suggestions: requests.RequestException is caught around
\* the request only; response.json() is called outside the try.
fetch_imdb_suggestions(response) ==
    IF response.status # "ok" THEN Fetched(<< >>)
    ELSE IF ~response.parses THEN Raised
    ELSE Fetched(response.items)

\* scraper.fetch_tmdb_titles (one page, one endpoint): as above, with `continue`
\* in the except clause.
fetch_tmdb_titles(response) ==
    IF response.status # "ok" THEN Fetched(<< >>)
    ELSE IF ~response.parses THEN Raised
    ELSE Fetched(response.items)

\* An episode adapter that lets the decode error of an unparseable body out.
fetch_imdb_episodes_unguarded(response) ==
    IF response.status # "ok" THEN Fetched(<< >>)
    ELSE IF ~response.parses THEN Raised
    ELSE Fetched(response.items)

\* scraper.fetch_imdb_episodes: json.loads of each ld+json script is inside a
\* try that skips the script; without a TVSeason payload the result is [].
fetch_imdb_episodes(response) ==
    IF response.status # "ok" THEN Fetched(<< >>)
    ELSE IF ~response.parses THEN Fetched(<< >>)
    ELSE Fetched(response.items)

fetch(adapter, response) ==
    CASE adapter = "imdb" -> fetch_imdb_suggestions(response)
      [] adapter = "tmdb" -> fetch_tmdb_titles(response)
      [] adapter = "imdb_episodes" -> fetch_imdb_episodes(response)

\* The call is left by an exception: nothing was committed, and the caller's
\* `finally: db.close()` discards what the session held.
raise_catalog(committed) ==
    /\ op = "catalog"
    /\ op' = "idle"
    /\ catalog' = committed
    /\ created' = 0
    /\ updated' = 0
    /\ consumed' = 0
    /\ lastOutcome' = "none"
    /\ UNCHANGED <<episodes, cid, rating_map>>

\* ---------------------------------------------------------------------------
\* SpecFetch: refresh_catalog.  upsert_catalog_items consumes the generator
\* load_catalog_sources, which runs the adapters one after the other as the loop
\* asks for the next item: here the IMDb suggestions, then TMDB.
\* ---------------------------------------------------------------------------

Statuses == {"network_error", "http_error", "ok"}

ImdbPayloads ==
    {<< >>, <<imdb_suggestion_item(Some(T_AB), Some(TV_series), Some(T_tt1), None)>>}

TmdbPayloads ==
    {<< >>,
     <<CatalogItem(Some(T_ABCD), "movie", Some(2001), "tmdb", Some(T_url), Some(T_tt2),
                   Some(T_abcd), Some(T_date), Some(70))>>}

Responses(payloads) ==
    { Response(st, ps, items) : st \in Statuses, ps \in BOOLEAN, items \in payloads }

SourcePlans ==
    { <<[adapter |-> "imdb", response |-> r1], [adapter |-> "tmdb", response |-> r2]>> :
        r1 \in Responses(ImdbPayloads), r2 \in Responses(TmdbPayloads) }

InitFetch ==
    /\ InitCore
    /\ engine = "catalog"
    /\ eval = NoEval
    /\ race = NoRace
    /\ refresh = NoRefresh

FetchUnchanged == UNCHANGED <<stream, prev, todo, seen, engine, eval, race>>

\* refresh_catalog: items = load_catalog_sources(); upsert_catalog_items(db, items)
RefreshBegin ==
    \E plan \in SourcePlans :
        /\ refresh.pc \in {"none", "returned", "raised"}
        /\ begin_catalog
        /\ refresh' = [pc |-> "merging", sources |-> plan, buffer |-> << >>,
                       committed |-> catalog]
        /\ FetchUnchanged

\* The loop asks for the next item and the generator runs the next adapter,
\* whose exception, if any, surfaces in the `for` statement of the merge.
RefreshFetch ==
    /\ refresh.pc = "merging"
    /\ refresh.buffer = << >>
    /\ refresh.sources # << >>
    /\ LET result == fetch(Head(refresh.sources).adapter, Head(refresh.sources).response)
       IN  IF result.raised
           THEN /\ raise_catalog(refresh.committed)
                /\ refresh' = [refresh EXCEPT !.pc = "raised"]
           ELSE /\ refresh' = [refresh EXCEPT !.buffer = result.items,
                                              !.sources = Tail(@)]
                /\ UNCHANGED <<catalog, episodes, op, cid, rating_map, created, updated,
                               consumed, lastOutcome>>
    /\ FetchUnchanged

RefreshItem ==
    /\ refresh.pc = "merging"
    /\ refresh.buffer # << >>
    /\ catalog_item(Head(refresh.buffer))
    /\ refresh' = [refresh EXCEPT !.buffer = Tail(@)]
    /\ FetchUnchanged

\* The generator is exhausted: session.commit(); return created, updated.
RefreshReturn ==
    /\ refresh.pc = "merging"
    /\ refresh.buffer = << >>
    /\ refresh.sources = << >>
    /\ commit_catalog
    /\ refresh' = [refresh EXCEPT !.pc = "returned", !.committed = catalog]
    /\ FetchUnchanged

NextFetch == RefreshBegin \/ RefreshFetch \/ RefreshItem \/ RefreshReturn

SpecFetch == InitFetch /\ [][NextFetch]_vars

\* ---------------------------------------------------------------------------
\* C16.  Every upstream failure of an adapter, a network error or a body that
\* does not parse, surfaces as an empty item sequence: no exception reaches the
\* merge while it consumes the stream, and the pass is never aborted.
\* ---------------------------------------------------------------------------

NoFetchFailureAbortsThePass == refresh.pc # "raised"

\* ---------------------------------------------------------------------------
\* SpecEpisodeStream: upsert_episode_items for one series on streams that mix
\* numbered and unnumbered items and titles of different lengths, none of them
\* with surrounding whitespace; each call is recorded and, once it has returned,
\* either forgotten or followed at once by a second pass over the same stream.
\* ---------------------------------------------------------------------------

StreamEpisodeItems ==
    { EpisodeItem(t, n[1], n[2], None, None, "imdb", None) :
        t \in {Some(T_AB), Some(T_ABCD)},
        n \in {<<None, None>>, <<Some(1), Some(1)>>, <<Some(1), Some(2)>>} }

InitEpisodeStream == InitStores /\ engine = "episodes"

EpisodeFirstPassBegin ==
    /\ begin_episodes(1)
    /\ stream' = << >>
    /\ prev' = NoCall
    /\ todo' = << >>
    /\ UNCHANGED <<seen, engine, eval, race, refresh>>

EpisodeFirstPassItem ==
    \E item \in StreamEpisodeItems :
        /\ prev.op = "none"
        /\ episode_item(item)
        /\ stream' = Append(stream, [item |-> item, outcome |-> lastOutcome'])
        /\ UNCHANGED <<prev, todo, seen, engine, eval, race, refresh>>

EpisodeFirstPassReturn ==
    /\ prev.op = "none"
    /\ commit_episodes
    /\ prev' = Returned("episodes")
    /\ stream' = << >>
    /\ UNCHANGED <<todo, seen, engine, eval, race, refresh>>

\* The same stream is merged again for the same catalog_id, right after the
\* first pass returned.
EpisodeSecondPassBegin ==
    /\ prev.op = "episodes"
    /\ begin_episodes(prev.cid)
    /\ todo' = [i \in 1..Len(prev.items) |-> prev.items[i].item]
    /\ stream' = << >>
    /\ UNCHANGED <<prev, seen, engine, eval, race, refresh>>

EpisodeSecondPassItem ==
    /\ prev.op = "episodes"
    /\ todo # << >>
    /\ episode_item(Head(todo))
    /\ todo' = Tail(todo)
    /\ stream' = Append(stream, [item |-> Head(todo), outcome |-> lastOutcome'])
    /\ UNCHANGED <<prev, seen, engine, eval, race, refresh>>

EpisodeSecondPassReturn ==
    /\ prev.op = "episodes"
    /\ todo = << >>
    /\ commit_episodes
    /\ prev' = Returned("second")
    /\ stream' = << >>
    /\ UNCHANGED <<todo, seen, engine, eval, race, refresh>>

NextEpisodeStream ==
    \/ EpisodeFirstPassBegin
    \/ EpisodeFirstPassItem
    \/ EpisodeFirstPassReturn
    \/ EpisodeSecondPassBegin
    \/ EpisodeSecondPassItem
    \/ EpisodeSecondPassReturn

SpecEpisodeStream == InitEpisodeStream /\ [][NextEpisodeStream]_vars

\* ---------------------------------------------------------------------------
\* C17.  Idempotence of upsert_episode_items: when the same episode stream is
\* merged twice in succession for one catalog_id, the second pass returns
\* created_count = 0.
\* ---------------------------------------------------------------------------

SecondEpisodePassCreatesNothing ==
    (engine = "episodes" /\ prev.op = "second") => prev.created = 0

\* ---------------------------------------------------------------------------
\* C18.  The lookup tier of upsert_episode_items depends only on the candidate:
\* a valid-titled candidate with both numbers is merged if and only if a row of
\* the same (catalog_id, season_number, episode_number) exists, whatever the
\* titles; one that lacks a number is merged if and only if a row of the same
\* (catalog_id, title) exists, whatever numbers that row carries.
\* ---------------------------------------------------------------------------

RowOfSameNumbers(c, item) ==
    \E i \in 1..Len(episodes) :
        /\ episodes[i].catalog_id = c
        /\ episodes[i].season_number = item.season_number
        /\ episodes[i].episode_number = item.episode_number

RowOfSameTitle(c, item) ==
    \E i \in 1..Len(episodes) :
        /\ episodes[i].catalog_id = c
        /\ episodes[i].title = item.title

Merged(outcome) == outcome \in {"updated", "unchanged"}

LookupTierFollowsTheCandidate ==
    [][\A item \in KeyEpisodeItems :
          (episode_item(item) /\ ~TitleFails(item.title)) =>
              IF item.season_number # None /\ item.episode_number # None
              THEN Merged(lastOutcome') <=> RowOfSameNumbers(cid, item)
              ELSE Merged(lastOutcome') <=> RowOfSameTitle(cid, item)]_vars

UnnumberedMergedIntoNumberedRow ==
    /\ Len(stream) = 1
    /\ stream[1].item.season_number = None
    /\ stream[1].item.episode_number = None
    /\ Merged(stream[1].outcome)
    /\ Len(episodes) = 1
    /\ episodes[1].season_number = Some(1)
    /\ episodes[1].episode_number = Some(1)

\* ---------------------------------------------------------------------------
\* SpecSeries: refresh_series_episodes over a catalog that holds two IMDb
\* series.  For each series in id order the episodes are fetched; an empty
\* result is skipped, any other is merged by upsert_episode_items and its
\* tallies are added to the sums.  `stream` records, per series visited, what
\* was fetched and what the merge returned.
\* ---------------------------------------------------------------------------

\* The SELECT of refresh_series_episodes, ordered by id.
imdb_series(rows) ==
    SelectSeq([i \in 1..Len(rows) |-> i],
              LAMBDA i : /\ rows[i].source = "imdb"
                         /\ rows[i].media_type = "series"
                         /\ rows[i].external_id # None)

SeriesRows ==
    <<new_catalog_title(imdb_suggestion_item(Some(T_AB), Some(TV_series), Some(T_tt1), None)),
      new_catalog_title(imdb_suggestion_item(Some(T_ABCD), Some(TV_series), Some(T_tt2), None))>>

EpisodePayloads ==
    {<< >>,
     <<EpisodeItem(Some(T_AB), Some(1), Some(1), Some(T_date), None, "imdb", Some(T_url))>>,
     <<EpisodeItem(Some(T_ABCD), Some(1), Some(1), None, Some(T_ab), "imdb", Some(T_url))>>}

\* What the episode page of one series may answer: a failed request, a body
\* without a parseable TVSeason payload, or a payload and its episodes.
EpisodeResponses ==
    { Response(st, ps, << >>) : st \in Statuses, ps \in BOOLEAN }
    \cup { Response("ok", TRUE, items) : items \in EpisodePayloads }

EpisodePlans == [1..Len(SeriesRows) -> EpisodeResponses]

InitSeries ==
    /\ catalog = SeriesRows
    /\ episodes = << >>
    /\ op = "idle"
    /\ cid = 0
    /\ rating_map = NoRatings
    /\ created = 0
    /\ updated = 0
    /\ consumed = 0
    /\ lastOutcome = "none"
    /\ stream = << >>
    /\ prev = NoCall
    /\ todo = << >>
    /\ seen = [m \in MediaTypes |-> {}]
    /\ engine = "episodes"
    /\ eval = NoEval
    /\ race = NoRace
    /\ refresh = NoRefresh

SeriesUnchanged == UNCHANGED <<prev, todo, seen, engine, eval, race>>

CoreUnchanged ==
    UNCHANGED <<catalog, episodes, op, cid, rating_map, created, updated, consumed,
                lastOutcome>>

\* main.py:56-75: the sums start at 0 and the series are selected.
SeriesBegin ==
    \E plan \in EpisodePlans :
        /\ op = "idle"
        /\ refresh.pc \in {"none", "returned"}
        /\ refresh' = [pc |-> "loop", series |-> imdb_series(catalog), plan |-> plan,
                       buffer |-> << >>, created |-> 0, updated |-> 0]
        /\ stream' = << >>
        /\ CoreUnchanged
        /\ SeriesUnchanged

\* main.py:76-79: the fetch for the next series; `continue` on an empty result,
\* else the call of upsert_episode_items.
SeriesFetch ==
    /\ refresh.pc = "loop"
    /\ refresh.series # << >>
    /\ LET entry == Head(refresh.series)
           result == fetch("imdb_episodes", refresh.plan[entry])
       IN  IF result.raised
           THEN /\ refresh' = [refresh EXCEPT !.pc = "raised"]
                /\ UNCHANGED stream
                /\ CoreUnchanged
           ELSE IF result.items = << >>
           THEN /\ refresh' = [refresh EXCEPT !.series = Tail(@)]
                /\ stream' = Append(stream, [cid |-> entry, fetched |-> 0,
                                             created |-> 0, updated |-> 0])
                /\ CoreUnchanged
           ELSE /\ begin_episodes(entry)
                /\ refresh' = [refresh EXCEPT !.pc = "upsert", !.buffer = result.items]
                /\ UNCHANGED stream
    /\ SeriesUnchanged

SeriesItem ==
    /\ refresh.pc = "upsert"
    /\ refresh.buffer # << >>
    /\ episode_item(Head(refresh.buffer))
    /\ refresh' = [refresh EXCEPT !.buffer = Tail(@)]
    /\ UNCHANGED stream
    /\ SeriesUnchanged

\* main.py:80-82: upsert_episode_items returns and its tallies are added.
SeriesMerged ==
    /\ refresh.pc = "upsert"
    /\ refresh.buffer = << >>
    /\ commit_episodes
    /\ refresh' = [refresh EXCEPT !.pc = "loop", !.series = Tail(@),
                                  !.created = @ + created, !.updated = @ + updated]
    /\ stream' = Append(stream, [cid |-> cid, fetched |-> consumed,
                                 created |-> created, updated |-> updated])
    /\ SeriesUnchanged

\* main.py:83: return created, updated.
SeriesReturn ==
    /\ refresh.pc = "loop"
    /\ refresh.series = << >>
    /\ refresh' = [refresh EXCEPT !.pc = "returned"]
    /\ UNCHANGED stream
    /\ CoreUnchanged
    /\ SeriesUnchanged

NextSeries == SeriesBegin \/ SeriesFetch \/ SeriesItem \/ SeriesMerged \/ SeriesReturn

SpecSeries == InitSeries /\ [][NextSeries]_vars

\* The loop of refresh_series_episodes runs on: each of its steps is taken.
FairSpecSeries ==
    SpecSeries /\ WF_vars(SeriesFetch \/ SeriesItem \/ SeriesMerged \/ SeriesReturn)

\* ---------------------------------------------------------------------------
\* C19.  In a refresh pass over several series, a series whose fetch fails or
\* returns no episodes is a no-op (stores and sums unchanged) and every other
\* series is merged: no fetch outcome aborts the pass, the pass reaches the end
\* of the series list, has then visited every series, merged every item of
\* every non-empty fetch, and returns the sums of the merges' tallies.
\* ---------------------------------------------------------------------------

RECURSIVE SumCreated(_)
SumCreated(visits) ==
    IF visits = << >> THEN 0 ELSE Head(visits).created + SumCreated(Tail(visits))

RECURSIVE SumUpdated(_)
SumUpdated(visits) ==
    IF visits = << >> THEN 0 ELSE Head(visits).updated + SumUpdated(Tail(visits))

\* What the series `entry` is planned to yield, with failures as the claim
\* puts them: nothing unless the request succeeded and the body parsed.
Yields(entry) ==
    IF refresh.plan[entry].status = "ok" /\ refresh.plan[entry].parses
    THEN refresh.plan[entry].items
    ELSE << >>

PassReturned ==
    LET series == imdb_series(catalog)
    IN  /\ Len(stream) = Len(series)
        /\ \A i \in 1..Len(series) :
              /\ stream[i].cid = series[i]
              /\ stream[i].fetched = Len(Yields(series[i]))
              /\ Yields(series[i]) = << >> => (stream[i].created = 0 /\ stream[i].updated = 0)
        /\ refresh.created = SumCreated(stream)
        /\ refresh.updated = SumUpdated(stream)

EmptyFetchIsSkipped ==
    (refresh.pc = "loop" /\ refresh.series # << >> /\ Yields(Head(refresh.series)) = << >>)
        => /\ UNCHANGED <<catalog, episodes>>
           /\ refresh'.pc = "loop"
           /\ refresh'.series = Tail(refresh.series)
           /\ refresh'.created = refresh.created
           /\ refresh'.updated = refresh.updated

live_rating(existing, incoming) ==
    IF rating_replaces(existing, [rating |-> incoming]) THEN incoming ELSE existing.rating

BulkRatingFollowsTheLiveRule ==
    [][\A record \in TitleRecords : \A i \in 1..Len(catalog) :
          (/\ imdb_title(record)
           /\ TruthyStr(record.tconst)
           /\ TruthyStr(record.primary_title)
           /\ find_imdb_title(catalog, record) = {i})
              => catalog'[i].rating =
                    live_rating(catalog[i], rating_get(rating_map, record.tconst))]_vars

\* ---------------------------------------------------------------------------
\* SpecBulkEpisodes: the episodes of two IMDb series, written by the bulk path
\* (bulk_ingest.main: build_catalog_lookup, the episode title dict, then
\* upsert_imdb_episodes) and by the live path (upsert_episode_items).  `refresh`
\* holds the locals of main that the bulk call is given.
\* ---------------------------------------------------------------------------

T_ep1 == <<"t", "t", "3">>

T_ep2 == <<"t", "t", "4">>

T_tt9 == <<"t", "t", "9">>

EpisodeTconsts == {Some(T_ep1), Some(T_ep2)}

EpisodeTitleRecord(tconst, title, start_year) ==
    [tconst |-> tconst, title |-> title, start_year |-> start_year]

\* The dicts main may build from the episode titles file: each tconst absent,
\* or present under one of two titles.
EpisodeTitleMaps ==
    { [t \in present |-> Some(EpisodeTitleRecord(t, titles[t], years[t]))] :
        present \in SUBSET EpisodeTconsts,
        titles \in [EpisodeTconsts -> {Some(T_AB), Some(T_ABCD)}],
        years \in [EpisodeTconsts -> {Some(2001)}] }

EpisodeRecord(tconst, parent_tconst, season_number, episode_number) ==
    [tconst |-> tconst, parent_tconst |-> parent_tconst,
     season_number |-> season_number, episode_number |-> episode_number]

EpisodeRecords ==
    { EpisodeRecord(t, p, s, Some(1)) :
        t \in EpisodeTconsts \cup {Some(T_empty)},
        p \in {Some(T_tt1), Some(T_tt9), Some(T_empty)},
        s \in {None, Some(1)} }

LiveEpisodeItems ==
    { EpisodeItem(t, Some(1), Some(1), None, None, "imdb", None) :
        t \in {Some(T_AB), Some(T_ABCD)} }

InitBulkEpisodes ==
    /\ catalog = SeriesRows
    /\ episodes = << >>
    /\ op = "idle"
    /\ cid = 0
    /\ rating_map = NoRatings
    /\ created = 0
    /\ updated = 0
    /\ consumed = 0
    /\ lastOutcome = "none"
    /\ stream = << >>
    /\ prev = NoCall
    /\ todo = << >>
    /\ seen = [m \in MediaTypes |-> {}]
    /\ engine = "episodes"
    /\ eval = NoEval
    /\ race = NoRace
    /\ refresh = NoRefresh

\* bulk_ingest.main: the lookup and the title dict are built, then the call.
BulkEpisodesBegin ==
    \E episode_titles \in EpisodeTitleMaps :
        /\ begin_imdb_episodes
        /\ refresh' = [pc |-> "bulk_episodes",
                       catalog_lookup |-> build_catalog_lookup(catalog),
                       episode_titles |-> episode_titles]
        /\ UNCHANGED <<stream, prev, todo, seen, engine, eval, race>>

BulkEpisode ==
    \E episode \in EpisodeRecords :
        /\ refresh.pc = "bulk_episodes"
        /\ imdb_episode(refresh.catalog_lookup, refresh.episode_titles, episode)
        /\ UNCHANGED hist

BulkEpisodesCommit ==
    /\ commit_imdb_episodes
    /\ refresh' = NoRefresh
    /\ UNCHANGED <<stream, prev, todo, seen, engine, eval, race>>

LiveEpisodesBegin == begin_episodes(1) /\ UNCHANGED hist

LiveEpisodesItem == \E item \in LiveEpisodeItems : episode_item(item) /\ UNCHANGED hist

LiveEpisodesCommit == commit_episodes /\ UNCHANGED hist

NextBulkEpisodes ==
    \/ BulkEpisodesBegin
    \/ BulkEpisode
    \/ BulkEpisodesCommit
    \/ LiveEpisodesBegin
    \/ LiveEpisodesItem
    \/ LiveEpisodesCommit

SpecBulkEpisodes == InitBulkEpisodes /\ [][NextBulkEpisodes]_vars

\* ---------------------------------------------------------------------------
\* C21.  After any sequence of upsert_imdb_episodes calls, alone or interleaved
\* with upsert_episode_items calls, no two Episode rows share (catalog_id,
\* season_number, episode_number) with both numbers present.
\* ---------------------------------------------------------------------------

Numbered(row) == row.season_number # None /\ row.episode_number # None

BulkKeepsOneRowPerEpisodeNumber ==
    \A i \in 1..Len(episodes) : \A j \in 1..Len(episodes) :
        (/\ i # j
         /\ Numbered(episodes[i])
         /\ episodes[i].catalog_id = episodes[j].catalog_id
         /\ episodes[i].season_number = episodes[j].season_number)
            => episodes[i].episode_number # episodes[j].episode_number

\* ---------------------------------------------------------------------------
\* C22.  The identity fields of a CatalogTitle row are immutable after
\* creation: no step of upsert_catalog_items or upsert_imdb_titles changes the
\* title, source or media_type of an existing row.
\* ---------------------------------------------------------------------------

IdentityFieldsNeverChange ==
    [][\A i \in 1..Len(catalog) :
          /\ i <= Len(catalog')
          /\ catalog'[i].title = catalog[i].title
          /\ catalog'[i].source = catalog[i].source
          /\ catalog'[i].media_type = catalog[i].media_type]_vars

\* A bulk record, whose primary_title is "AB", was merged by its tconst into a
\* row that the live path had created as "ABCD", and the row is still "ABCD".
BulkMergedRowKeptItsTitle ==
    /\ op = "imdb_titles"
    /\ lastOutcome = "updated"
    /\ Len(catalog) = 1
    /\ catalog[1].title = Some(T_ABCD)
    /\ catalog[1].year = Some(2001)

\* ---------------------------------------------------------------------------
\* SpecClean: the live path from an empty store, fed with text that is padded
\* or invalid in every text field.  stream holds the item of the last step.
\* ---------------------------------------------------------------------------

T_s20 == <<" ", "2", "0">>

CleanItems ==
    { CatalogItem(t, "series", None, "wikipedia", None, None, d, r, None) :
        t \in {Some(T_sAB), Some(T_AB), Some(T_dash)},
        d \in {None, Some(T_dash), Some(T_sAB), Some(T_ShowAs)},
        r \in {None, Some(T_dash), Some(T_s20)} }

CleanEpisodeItems ==
    { EpisodeItem(t, Some(1), Some(1), a, d, "imdb", None) :
        t \in {Some(T_sAB), Some(T_ShowAs), Some(T_dash)},
        a \in {None, Some(T_dash), Some(T_s20)},
        d \in {None, Some(T_dash), Some(T_sAB), Some(T_ShowAs)} }

CleanCatalogItem ==
    \E item \in CleanItems :
        /\ catalog_item(item)
        /\ stream' = <<item>>
        /\ UNCHANGED <<prev, todo, seen, engine, eval, race, refresh>>

CleanEpisodeItem ==
    \E item \in CleanEpisodeItems :
        /\ episode_item(item)
        /\ stream' = <<item>>
        /\ UNCHANGED <<prev, todo, seen, engine, eval, race, refresh>>

NextClean ==
    \/ BeginCatalog
    \/ CleanCatalogItem
    \/ CommitCatalog
    \/ BeginEpisodes
    \/ CleanEpisodeItem
    \/ CommitEpisodes

SpecClean == Init /\ [][NextClean]_vars

\* ---------------------------------------------------------------------------
\* C23.  Stored text is always clean on the live path: in every state reached
\* through upsert_catalog_items and upsert_episode_items from an empty store,
\* every stored title is valid and equal to its own trimmed form, and every
\* stored description, release_date and air_date is absent or valid and equal
\* to its own trimmed form.
\* ---------------------------------------------------------------------------

CleanText(v) == ValidText(v) /\ v = Trimmed(v)

StoredTextIsClean ==
    /\ \A i \in 1..Len(catalog) :
          /\ CleanText(catalog[i].title)
          /\ catalog[i].description = None \/ CleanText(catalog[i].description)
          /\ catalog[i].release_date = None \/ CleanText(catalog[i].release_date)
    /\ \A i \in 1..Len(episodes) :
          /\ CleanText(episodes[i].title)
          /\ episodes[i].description = None \/ CleanText(episodes[i].description)
          /\ episodes[i].air_date = None \/ CleanText(episodes[i].air_date)

\* An item with a padded title, an invalid description and a padded date was
\* just inserted: the row holds the trimmed title, no description and the
\* trimmed date.
DirtyItemInsertedClean ==
    /\ op = "catalog"
    /\ lastOutcome = "created"
    /\ stream = <<CatalogItem(Some(T_sAB), "series", None, "wikipedia", None,
                              None, Some(T_dash), Some(T_s20), None)>>
    /\ catalog[Len(catalog)].title = Some(T_AB)
    /\ catalog[Len(catalog)].description = None
    /\ catalog[Len(catalog)].release_date = Some(T_date)

====
